---- MODULE Spec2Model ----
(***************************************************************************)
(* Model of scripts/deploy.py (PortyfoulDeployer): the deployment state    *)
(* machine  build/push -> revise+update -> monitor (rollback on failure)   *)
(* -> verify health -> summary, run by successive processes against one    *)
(* ECS control plane.                                                      *)
(***************************************************************************)
EXTENDS Integers, Sequences, FiniteSets, TLC

\* ------------------------------------------------------------------ bounds
\* number of deploy.py processes run one after another against the cluster
MaxRuns == 2

\* largest --timeout value tried besides the default
MaxTimeout == 50

\* ------------------------------------------------------- program constants
\* --timeout default
DefaultTimeout == 600

\* check_interval = 15
CheckInterval == 15

\* --timeout values: every small one, and the default
Timeouts == 0..MaxTimeout \cup {DefaultTimeout}

\* the placeholder revision of the dry-run ARN (...task-definition/<name>:99)
DryRunRevision == 99

\* main(): services = [args.service] or ['web', 'worker']
ServiceLists == {<<"web">>, <<"worker">>, <<"web", "worker">>}

Services == {"web", "worker"}

\* --tag values: absent (None) or a custom tag
NoTag == "None"

ImageTags == {NoTag, "v2"}

\* ------------------------------------------------ external collaborators
\* output keys the script reads from the stack
AllKeys == {"ECRRepositoryUri", "ECSClusterName", "WebServiceName",
            "WorkerServiceName", "WebTargetGroupArn"}

\* the output sets the configuration source may hold: complete, or one key short
KeySets == {AllKeys} \cup {AllKeys \ {k} : k \in AllKeys}

StackStatuses == {"CREATE_COMPLETE", "UPDATE_COMPLETE", "ROLLBACK_COMPLETE"}

\* what describe_stacks can answer: a ClientError, or a status with outputs
CfResponses == {[err |-> TRUE, status |-> "CREATE_COMPLETE", keys |-> AllKeys]}
               \cup {[err |-> FALSE, status |-> st, keys |-> ks] :
                        st \in StackStatuses, ks \in KeySets}

\* container lists a registered task definition may have: the service's own
\* container next to a sidecar, or (configuration drift) only the sidecar
Container(n, img) == [name |-> n, image |-> img]

OldImage == <<"ecr", "old">>

ContainerLists(s) == {<<Container("sidecar", OldImage), Container(s, OldImage)>>,
                      <<Container("sidecar", OldImage)>>}

\* a task definition ARN: family and revision
Arn(s, n) == <<s, n>>

NoArn == <<"none", 0>>

\* one call to an external collaborator, as logged by the model: the operation,
\* the service it is about, the unit it names, and whether it was answered
\* normally ("ok") or raised ("err")
Call(op, s, unit, res) == [op |-> op, svc |-> s, unit |-> unit, res |-> res]

Res(ok) == IF ok THEN "ok" ELSE "err"

MutatingOps == {"docker_build", "ecr_login", "docker_tag", "docker_push",
                "docker_push_latest", "register_task_definition",
                "update_service", "rollback_update_service"}

VARIABLES
    \* control plane, shared by all runs
    taskDef,            \* per family: the latest registered revision
    bound,              \* per service: the ARN the service is bound to
    runs,               \* processes started so far
    \* the deployer object and deploy()'s locals
    dry_run, build_only, update_services_only, services, image_tag,
    stack_outputs,      \* self._stack_outputs: [set |-> BOOLEAN, keys |-> ...]
    previous_task_defs, \* self.previous_task_defs: function on a subset of Services
    image_uri, task_def_arn, all_healthy,
    task_def,           \* create_task_definition_revision's local: the unit read
    pc, idx,            \* position in deploy(): phase and loop index
    exit,               \* process exit status: -1 while running
    \* history of the run
    calls,              \* calls made to the collaborators, in order
    failure,            \* which sys.exit(1) site ended the run
    cfQueries,          \* describe_stacks calls made
    created,            \* per created revision: what was read and what happened
    monitored,          \* wait_for_deployment results, in order
    verified,           \* verify_service_health results, in order
    boundBefore,        \* per service updated in this run: bound unit before the update
    updated,            \* services whose update_service returned normally, in order
    \* the waiter inside wait_for_deployment
    timeout,            \* self.timeout
    num_attempts,       \* polls the waiter has made
    waiter              \* "idle", "waiting", "success", "timed_out" or "failed"

cpVars == <<taskDef, bound, runs>>

argVars == <<dry_run, build_only, update_services_only, services, image_tag>>

vars == <<taskDef, bound, runs, dry_run, build_only, update_services_only,
          services, image_tag, stack_outputs, previous_task_defs, image_uri,
          task_def_arn, all_healthy, task_def, pc, idx, exit, calls, failure, cfQueries,
          created, monitored, verified, boundBefore, updated, timeout,
          num_attempts, waiter>>

waitVars == <<timeout, num_attempts, waiter>>

\* ------------------------------------------------------------- helpers
EmptyMap == [x \in {} |-> NoArn]

\* dict[key] = value
Put(d, k, v) == [x \in DOMAIN d \cup {k} |-> IF x = k THEN v ELSE d[x]]

NoOutputs == [set |-> FALSE, keys |-> {}]

NoTaskDef == [revision |-> 0, containerDefinitions |-> <<>>]

\* f'{service_type.capitalize()}ServiceName'
ServiceNameKey(s) == IF s = "web" THEN "WebServiceName" ELSE "WorkerServiceName"

\* outputs.get(key): the value, or None
Get(outputs, k) == IF k \in outputs.keys THEN k ELSE "None"

\* get_stack_outputs answers normally on a complete stack
StackReady(resp) == /\ ~resp.err
                    /\ resp.status \in {"CREATE_COMPLETE", "UPDATE_COMPLETE"}

\* what the configuration source would answer to a query made later in the
\* run, after its outputs have changed
LaterResponses ==
    {[err |-> FALSE, status |-> "UPDATE_COMPLETE", keys |-> {}],
     [err |-> FALSE, status |-> "UPDATE_COMPLETE", keys |-> {"ECRRepositoryUri"}]}

\* variant: the cache is not consulted, every call queries the source
GetStackOutputsUncached(cache, resp) ==
    [outputs |-> [set |-> TRUE, keys |-> resp.keys], queried |-> TRUE]

\* get_stack_outputs on a ready source: the cached outputs when there are
\* any, else the outputs just queried, which are cached
GetStackOutputs(cache, resp) ==
    IF cache.set
    THEN [outputs |-> cache, queried |-> FALSE]
    ELSE [outputs |-> [set |-> TRUE, keys |-> resp.keys], queried |-> TRUE]

\* describe_stacks calls made by one get_stack_outputs
Queries(g) == IF g.queried THEN 1 ELSE 0

\* the fields __init__ sets besides the arguments, and the history of a run
\* that has made no step
FreshProcess ==
    /\ stack_outputs' = NoOutputs
    /\ previous_task_defs' = EmptyMap
    /\ image_uri' = <<"None", "None">>
    /\ task_def_arn' = NoArn
    /\ task_def' = NoTaskDef
    /\ all_healthy' = TRUE
    /\ idx' = 1
    /\ exit' = -1
    /\ calls' = <<>>
    /\ failure' = "none"
    /\ cfQueries' = 0
    /\ created' = <<>>
    /\ monitored' = <<>>
    /\ verified' = <<>>
    /\ boundBefore' = EmptyMap
    /\ updated' = <<>>
    /\ num_attempts' = 0
    /\ waiter' = "idle"

Init ==
    /\ taskDef \in [Services -> [revision : {1}, containerDefinitions :
                                   UNION {ContainerLists(s) : s \in Services}]]
    /\ \A s \in Services : taskDef[s].containerDefinitions \in ContainerLists(s)
    /\ bound = [s \in Services |-> Arn(s, 1)]
    /\ runs = 1
    /\ dry_run \in BOOLEAN
    /\ build_only \in BOOLEAN
    /\ update_services_only \in BOOLEAN
    /\ services \in ServiceLists
    /\ image_tag \in ImageTags
    /\ stack_outputs = NoOutputs
    /\ previous_task_defs = EmptyMap
    /\ image_uri = <<"None", "None">>
    /\ task_def_arn = NoArn
    /\ task_def = NoTaskDef
    /\ all_healthy = TRUE
    /\ pc = "start"
    /\ idx = 1
    /\ exit = -1
    /\ calls = <<>>
    /\ failure = "none"
    /\ cfQueries = 0
    /\ created = <<>>
    /\ monitored = <<>>
    /\ verified = <<>>
    /\ boundBefore = EmptyMap
    /\ updated = <<>>
    /\ timeout = DefaultTimeout
    /\ num_attempts = 0
    /\ waiter = "idle"

\* sys.exit(1) at the named site
Die(site) ==
    /\ pc' = "done"
    /\ exit' = 1
    /\ failure' = site

\* ------------------------------------------------------------- actions
\* the docker/ECR steps of build_and_push_image, in order
BuildSteps == <<"docker_build", "ecr_login", "docker_tag", "docker_push",
                "docker_push_latest">>

\* the calls made when step failAt fails (0: none fails)
BuildCalls(failAt) ==
    [i \in 1..(IF failAt = 0 THEN Len(BuildSteps) ELSE failAt) |->
        Call(BuildSteps[i], "-", NoArn, Res(i # failAt))]

\* deploy(), step 1 when not update_services_only: build_and_push_image
BuildAndPushImage ==
    /\ pc = "start"
    /\ ~update_services_only
    /\ \E resp \in CfResponses, gitOk \in BOOLEAN, failAt \in 0..Len(BuildSteps) :
        /\ cfQueries' = cfQueries + Queries(GetStackOutputs(stack_outputs, resp))
        /\ IF ~StackReady(resp)
           THEN /\ Die("ConfigurationUnavailable")
                /\ calls' = Append(calls, Call("describe_stacks", "-", NoArn,
                                                Res(~resp.err)))
                /\ UNCHANGED <<stack_outputs, image_uri>>
           ELSE LET outputs == GetStackOutputs(stack_outputs, resp).outputs
                    ecr_uri == Get(outputs, "ECRRepositoryUri")
                    tag     == IF image_tag = NoTag THEN "sha" ELSE image_tag
                    q       == Append(calls, Call("describe_stacks", "-", NoArn, "ok"))
                IN  /\ stack_outputs' = outputs
                    /\ IF ecr_uri = "None"
                       THEN /\ Die("ConfigurationMissing")
                            /\ calls' = q
                            /\ UNCHANGED image_uri
                       ELSE IF image_tag = NoTag /\ ~gitOk
                       THEN /\ Die("GitShaFailed")
                            /\ calls' = q
                            /\ UNCHANGED image_uri
                       ELSE IF dry_run
                       THEN /\ image_uri' = <<ecr_uri, tag>>
                            /\ calls' = q
                            /\ IF build_only
                               THEN pc' = "done" /\ exit' = 0
                               ELSE pc' = "revise" /\ exit' = exit
                            /\ UNCHANGED failure
                       ELSE /\ calls' = q \o BuildCalls(failAt)
                            /\ IF failAt # 0
                               THEN Die("ImagePublishFailed") /\ UNCHANGED image_uri
                               ELSE /\ image_uri' = <<ecr_uri, tag>>
                                    /\ IF build_only
                                       THEN pc' = "done" /\ exit' = 0
                                       ELSE pc' = "revise" /\ exit' = exit
                                    /\ UNCHANGED failure
    /\ UNCHANGED <<waitVars, updated>>
    /\ UNCHANGED <<cpVars, argVars, previous_task_defs, task_def_arn, task_def,
                   all_healthy, idx, created, monitored, verified, boundBefore>>

\* deploy(), the else branch of step 1: the image reference is built from the tag
UseExistingImage ==
    /\ pc = "start"
    /\ update_services_only
    /\ \E resp \in CfResponses :
        /\ cfQueries' = cfQueries + Queries(GetStackOutputs(stack_outputs, resp))
        /\ calls' = Append(calls, Call("describe_stacks", "-", NoArn, Res(~resp.err)))
        /\ IF ~StackReady(resp)
           THEN /\ Die("ConfigurationUnavailable")
                /\ UNCHANGED <<stack_outputs, image_uri>>
           ELSE LET outputs == GetStackOutputs(stack_outputs, resp).outputs
                    ecr_uri == Get(outputs, "ECRRepositoryUri")
                    tag     == IF image_tag # NoTag THEN image_tag ELSE "latest"
                IN  /\ stack_outputs' = outputs
                    /\ image_uri' = <<ecr_uri, tag>>
                    /\ pc' = "revise"
                    /\ UNCHANGED <<exit, failure>>
    /\ UNCHANGED <<waitVars, updated>>
    /\ UNCHANGED <<cpVars, argVars, previous_task_defs, task_def_arn, task_def,
                   all_healthy, idx, created, monitored, verified, boundBefore>>

\* variant: the ARN read is not stored
RecordPreviousDropped(d, s, arn) == d

\* variant: only the web service's unit is stored
RecordPreviousWebOnly(d, s, arn) == IF s = "web" THEN Put(d, s, arn) ELSE d

\* self.previous_task_defs[service_type] = task_def['taskDefinitionArn']
RecordPrevious(d, s, arn) == Put(d, s, arn)

\* create_task_definition_revision, first half: read the current unit of the
\* family and store its ARN for rollback
DescribeTaskDefinition ==
    /\ pc = "revise"
    /\ LET s == services[idx] IN
       \E ok \in BOOLEAN, later \in LaterResponses :
        /\ stack_outputs' = GetStackOutputs(stack_outputs, later).outputs
        /\ cfQueries' = cfQueries + Queries(GetStackOutputs(stack_outputs, later))
        /\ calls' = Append(calls, Call("describe_task_definition", s, NoArn, Res(ok)))
        /\ IF ~ok
           THEN /\ Die("LookupFailed")
                /\ created' = Append(created, [svc |-> s, read |-> NoArn,
                                               found |-> FALSE,
                                               result |-> "lookup_failed"])
                /\ UNCHANGED <<task_def, previous_task_defs>>
           ELSE /\ task_def' = taskDef[s]
                /\ previous_task_defs' =
                       RecordPrevious(previous_task_defs, s, Arn(s, taskDef[s].revision))
                /\ pc' = "register"
                /\ UNCHANGED <<exit, failure, created>>
    /\ UNCHANGED <<waitVars, updated>>
    /\ UNCHANGED <<cpVars, argVars, image_uri, task_def_arn,
                   all_healthy, idx, monitored, verified, boundBefore>>

\* index of the first container named n, 0 when there is none
RECURSIVE FirstNamed(_, _, _)
FirstNamed(cs, n, i) ==
    IF i > Len(cs) THEN 0
    ELSE IF cs[i].name = n THEN i
    ELSE FirstNamed(cs, n, i + 1)

\* the for loop over containerDefinitions: the first container named n gets
\* the image, then break; without a match the list is left as it is
UpdateContainerImage(cs, n, img) ==
    LET k == FirstNamed(cs, n, 1)
    IN  IF k = 0 THEN cs ELSE [cs EXCEPT ![k].image = img]

\* create_task_definition_revision, second half: set the image and register
RegisterTaskDefinition ==
    /\ pc = "register"
    /\ LET s     == services[idx]
           read  == Arn(s, task_def.revision)
           found == FirstNamed(task_def.containerDefinitions, s, 1) # 0
           cs    == UpdateContainerImage(task_def.containerDefinitions, s, image_uri)
       IN
       \E ok \in BOOLEAN :
        IF dry_run
        THEN /\ task_def_arn' = Arn(s, DryRunRevision)
             /\ pc' = "update"
             /\ created' = Append(created, [svc |-> s, read |-> read, found |-> found,
                                            result |-> "dry_run"])
             /\ UNCHANGED <<calls, taskDef, exit, failure>>
        ELSE /\ calls' = Append(calls, Call("register_task_definition", s, NoArn, Res(ok)))
             /\ IF ok
                THEN /\ taskDef' = [taskDef EXCEPT ![s] =
                            [revision |-> task_def.revision + 1,
                             containerDefinitions |-> cs]]
                     /\ task_def_arn' = Arn(s, task_def.revision + 1)
                     /\ pc' = "update"
                     /\ created' = Append(created, [svc |-> s, read |-> read, found |-> found,
                                                    result |-> "registered"])
                     /\ UNCHANGED <<exit, failure>>
                ELSE /\ Die("RegistrationFailed")
                     /\ created' = Append(created, [svc |-> s, read |-> read, found |-> found,
                                                    result |-> "rejected"])
                     /\ UNCHANGED <<taskDef, task_def_arn>>
    /\ UNCHANGED <<waitVars, updated>>
    /\ UNCHANGED <<bound, runs, argVars, stack_outputs, previous_task_defs,
                   image_uri, task_def, all_healthy, idx, cfQueries, monitored,
                   verified, boundBefore>>

\* variant: the rejected update is logged and the loop of step 2 goes on
UpdateRejectedContinues ==
    /\ IF idx < Len(services)
       THEN pc' = "revise" /\ idx' = idx + 1
       ELSE pc' = "monitor" /\ idx' = 1
    /\ UNCHANGED <<exit, failure>>

\* variant: a rejected update rolls the first service of the list back
UpdateRejectedRollsBack ==
    /\ pc' = "rollback"
    /\ idx' = 1
    /\ UNCHANGED <<exit, failure>>

\* the except branch of update_service: log the error and sys.exit(1)
UpdateRejected ==
    /\ Die("ServiceUpdateFailed")
    /\ idx' = idx

\* variant: each service is monitored right after its own update
UpdateReturnsToMonitor ==
    /\ pc' = "monitor"
    /\ idx' = idx
    /\ UNCHANGED <<exit, failure>>

\* the for loop of step 2 moves to the next service, or step 3 starts
UpdateReturns ==
    /\ IF idx < Len(services)
       THEN pc' = "revise" /\ idx' = idx + 1
       ELSE pc' = "monitor" /\ idx' = 1
    /\ UNCHANGED <<exit, failure>>

\* variant: the dry-run check of update_service is missing
UpdateIgnoresDryRun == FALSE

\* if self.dry_run: log what would be updated and return
UpdateIsPreview == dry_run

\* update_service
UpdateService ==
    /\ pc = "update"
    /\ \E ok \in BOOLEAN, later \in LaterResponses :
       LET s            == services[idx]
           g            == GetStackOutputs(stack_outputs, later)
           cluster_name == Get(g.outputs, "ECSClusterName")
           service_name == Get(g.outputs, ServiceNameKey(s))
       IN
        /\ stack_outputs' = g.outputs
        /\ cfQueries' = cfQueries + Queries(g)
        /\ IF cluster_name = "None" \/ service_name = "None"
           THEN /\ Die("ConfigurationMissing")
                /\ UNCHANGED <<calls, bound, boundBefore, idx, updated>>
           ELSE IF UpdateIsPreview
           THEN /\ UpdateReturns
                /\ updated' = Append(updated, s)
                /\ UNCHANGED <<calls, bound, boundBefore>>
           ELSE /\ calls' = Append(calls, Call("update_service", s, task_def_arn, Res(ok)))
                /\ IF ok
                   THEN /\ bound' = [bound EXCEPT ![s] = task_def_arn]
                        /\ boundBefore' = Put(boundBefore, s, bound[s])
                        /\ updated' = Append(updated, s)
                        /\ UpdateReturns
                   ELSE /\ UpdateRejected
                        /\ UNCHANGED <<bound, boundBefore, updated>>
    /\ UNCHANGED waitVars
    /\ UNCHANGED <<taskDef, runs, argVars, previous_task_defs,
                   image_uri, task_def_arn, task_def, all_healthy,
                   created, monitored, verified>>

\* wait_for_deployment up to the waiter's result; its except branch goes on
\* in RollbackService
WaitForDeployment ==
    /\ pc = "monitor"
    /\ LET s == services[idx] IN
       \E result \in {"stable", "exhausted", "error"}, later \in LaterResponses :
        /\ stack_outputs' = GetStackOutputs(stack_outputs, later).outputs
        /\ cfQueries' = cfQueries + Queries(GetStackOutputs(stack_outputs, later))
        /\ IF dry_run
           THEN /\ IF idx < Len(services)
                   THEN pc' = "monitor" /\ idx' = idx + 1
                   ELSE pc' = "verify" /\ idx' = 1
                /\ monitored' = Append(monitored, [svc |-> s, result |-> "dry_run"])
                /\ UNCHANGED calls
           ELSE /\ calls' = Append(calls, Call("wait_services_stable", s, NoArn,
                                               Res(result = "stable")))
                /\ monitored' = Append(monitored, [svc |-> s, result |-> result])
                /\ IF result = "stable"
                   THEN IF idx < Len(services)
                        THEN pc' = "monitor" /\ idx' = idx + 1
                        ELSE pc' = "verify" /\ idx' = 1
                   ELSE pc' = "rollback" /\ idx' = idx
    /\ UNCHANGED <<waitVars, updated>>
    /\ UNCHANGED <<cpVars, argVars, previous_task_defs, image_uri,
                   task_def_arn, task_def, all_healthy, exit, failure,
                   created, verified, boundBefore>>

\* variant: the rollback names the latest registered revision of the family
RollbackTargetLatest(d, s) == Arn(s, taskDef[s].revision)

\* previous_task_def = self.previous_task_defs[service_type]
RollbackTarget(d, s) == d[s]

\* variant: no exit after the rollback, the loop of step 3 goes on
ContinueAfterRollback ==
    /\ IF idx < Len(services)
       THEN pc' = "monitor" /\ idx' = idx + 1
       ELSE pc' = "verify" /\ idx' = 1
    /\ UNCHANGED <<exit, failure>>

\* sys.exit(1) after rollback_service returned
ExitAfterRollback ==
    /\ Die("StabilizationTimeout")
    /\ idx' = idx

\* variant: a rejected rollback update is tried a second time
RollbackCallsRetried(s, unit, ok) ==
    IF ok THEN <<Call("rollback_update_service", s, unit, "ok")>>
    ELSE <<Call("rollback_update_service", s, unit, "err"),
           Call("rollback_update_service", s, unit, "err")>>

\* the try block of rollback_service: one update_service call; its except
\* branch only logs
RollbackCalls(s, unit, ok) ==
    <<Call("rollback_update_service", s, unit, Res(ok))>>

\* rollback_service, called from the except branch of wait_for_deployment,
\* and the sys.exit(1) that follows it
RollbackService ==
    /\ pc = "rollback"
    /\ LET s == services[idx] IN
       \E ok \in BOOLEAN, later \in LaterResponses :
        IF s \notin DOMAIN previous_task_defs \/ dry_run
        THEN UNCHANGED <<calls, bound, stack_outputs, cfQueries>>
        ELSE LET previous_task_def == RollbackTarget(previous_task_defs, s)
                 g == GetStackOutputs(stack_outputs, later)
             IN  /\ stack_outputs' = g.outputs
                 /\ cfQueries' = cfQueries + Queries(g)
                 /\ calls' = calls \o RollbackCalls(s, previous_task_def, ok)
                 /\ bound' = IF ok THEN [bound EXCEPT ![s] = previous_task_def]
                             ELSE bound
    /\ ExitAfterRollback
    /\ UNCHANGED <<waitVars, updated>>
    /\ UNCHANGED <<taskDef, runs, argVars, previous_task_defs,
                   image_uri, task_def_arn, task_def, all_healthy,
                   created, monitored, verified, boundBefore>>

\* what describe_target_health can answer
AlbResponses == {"all_healthy", "partial", "empty", "error"}

\* verify_alb_target_health: the probe is queried when the target group is known
AlbCalls(outputs, alb) ==
    IF Get(outputs, "WebTargetGroupArn") = "None" THEN <<>>
    ELSE <<Call("describe_target_health", "web", NoArn, Res(alb # "error"))>>

\* what verify_alb_target_health met: no target group key, or the probe's answer
AlbOutcome(outputs, alb) ==
    IF Get(outputs, "WebTargetGroupArn") = "None" THEN "no_key" ELSE alb

\* variant: the probe is made for every service type
ProbesAlbAlways(s) == TRUE

\* if service_type == 'web': self.verify_alb_target_health()
ProbesAlb(s) == s = "web"

\* variant: targets that are not all healthy fail the verification
AlbFailsUnlessHealthy(outcome) == outcome # "all_healthy"

\* whether what verify_alb_target_health met turns the result to False: it
\* only logs, and its return value is not used
AlbChangesResult(outcome) == FALSE

\* the value verify_service_health returns for what describe_services answered
VerifyReturn(dry, response) ==
    IF dry THEN "None"
    ELSE IF response = "match" THEN "True"
    ELSE "False"

\* if not self.verify_service_health(service): all_healthy = False
AllHealthyAfter(h, ret) == IF ret # "True" THEN FALSE ELSE h

\* variant: the loop of step 4 stops at the first failed verification
AfterVerifyFailFast(ret) ==
    IF ret = "False" \/ idx >= Len(services) THEN "summary" ELSE "verify"

\* variant: a failed verification rolls the service back
AfterVerifyRollsBack(ret) ==
    IF ret = "False" THEN "rollback"
    ELSE IF idx < Len(services) THEN "verify" ELSE "summary"

\* the for loop of step 4 goes on whatever verify returned
AfterVerify(ret) == IF idx < Len(services) THEN "verify" ELSE "summary"

\* verify_service_health, and the loop body of step 4 around it
VerifyServiceHealth ==
    /\ pc = "verify"
    /\ LET s == services[idx] IN
       \E response \in {"match", "mismatch", "error"}, alb \in AlbResponses,
          later \in LaterResponses :
        LET probed  == ~dry_run /\ response = "match" /\ ProbesAlb(s)
            outcome == IF probed THEN AlbOutcome(stack_outputs, alb) ELSE "none"
            ret     == IF probed /\ AlbChangesResult(outcome) THEN "False"
                       ELSE VerifyReturn(dry_run, response)
        IN
        /\ stack_outputs' = GetStackOutputs(stack_outputs, later).outputs
        /\ cfQueries' = cfQueries + Queries(GetStackOutputs(stack_outputs, later))
        /\ calls' = IF dry_run THEN calls
                    ELSE Append(calls, Call("describe_services", s, NoArn,
                                            Res(response # "error")))
                         \o (IF probed
                             THEN AlbCalls(stack_outputs, alb) ELSE <<>>)
        /\ verified' = Append(verified,
                          [svc |-> s,
                           response |-> IF dry_run THEN "skipped" ELSE response,
                           alb |-> outcome,
                           ret |-> ret])
        /\ all_healthy' = AllHealthyAfter(all_healthy, ret)
        /\ pc' = AfterVerify(ret)
        /\ idx' = IF AfterVerify(ret) = "verify" THEN idx + 1 ELSE idx
    /\ UNCHANGED <<waitVars, updated>>
    /\ UNCHANGED <<cpVars, argVars, previous_task_defs, image_uri,
                   task_def_arn, task_def, exit, failure, created,
                   monitored, boundBefore>>

\* deploy(), final status
Summary ==
    /\ pc = "summary"
    /\ IF all_healthy
       THEN pc' = "done" /\ exit' = 0 /\ UNCHANGED failure
       ELSE Die("HealthCheckFailed")
    /\ UNCHANGED <<waitVars, updated>>
    /\ UNCHANGED <<cpVars, argVars, stack_outputs, previous_task_defs, image_uri,
                   task_def_arn, task_def, all_healthy, idx, calls, cfQueries,
                   created, monitored, verified, boundBefore>>

\* the process is gone and with it everything it held in memory; only the
\* control plane keeps its state
ProcessExit ==
    /\ pc = "done"
    /\ runs < MaxRuns
    /\ pc' = "exited"
    /\ dry_run' = FALSE
    /\ build_only' = FALSE
    /\ update_services_only' = FALSE
    /\ services' = <<"web", "worker">>
    /\ image_tag' = NoTag
    /\ timeout' = DefaultTimeout
    /\ FreshProcess
    /\ UNCHANGED cpVars

\* the script is started again on the same cluster: main() parses the
\* arguments and constructs the deployer
NewRun ==
    /\ pc = "exited"
    /\ runs' = runs + 1
    /\ dry_run' \in BOOLEAN
    /\ build_only' \in BOOLEAN
    /\ update_services_only' \in BOOLEAN
    /\ services' \in ServiceLists
    /\ image_tag' \in ImageTags
    /\ timeout' = DefaultTimeout
    /\ pc' = "start"
    /\ FreshProcess
    /\ UNCHANGED <<taskDef, bound>>

Next ==
    \/ BuildAndPushImage
    \/ UseExistingImage
    \/ DescribeTaskDefinition
    \/ RegisterTaskDefinition
    \/ UpdateService
    \/ WaitForDeployment
    \/ RollbackService
    \/ VerifyServiceHealth
    \/ Summary
    \/ ProcessExit
    \/ NewRun

Spec == Init /\ [][Next]_vars

\* -------------------------------------------- the waiter, attempt by attempt
\* max_attempts = self.timeout // check_interval
MaxAttempts(t) == t \div CheckInterval

\* wait_for_deployment of a real run has passed its dry-run check and starts
\* the waiter: the web service was revised and updated with
\* --update-services, any --timeout
InitWait ==
    /\ timeout \in Timeouts
    /\ num_attempts = 0
    /\ waiter = "waiting"
    /\ taskDef = [s \in Services |->
                    [revision |-> IF s = "web" THEN 2 ELSE 1,
                     containerDefinitions |->
                        <<Container("sidecar", OldImage),
                          Container(s, IF s = "web"
                                       THEN <<"ECRRepositoryUri", "latest">>
                                       ELSE OldImage)>>]]
    /\ bound = [s \in Services |-> Arn(s, IF s = "web" THEN 2 ELSE 1)]
    /\ runs = 1
    /\ dry_run = FALSE
    /\ build_only = FALSE
    /\ update_services_only = TRUE
    /\ services = <<"web">>
    /\ image_tag = NoTag
    /\ stack_outputs = [set |-> TRUE, keys |-> AllKeys]
    /\ previous_task_defs = Put(EmptyMap, "web", Arn("web", 1))
    /\ image_uri = <<"ECRRepositoryUri", "latest">>
    /\ task_def_arn = Arn("web", 2)
    /\ task_def = [revision |-> 1,
                   containerDefinitions |->
                      <<Container("sidecar", OldImage), Container("web", OldImage)>>]
    /\ all_healthy = TRUE
    /\ pc = "monitor"
    /\ idx = 1
    /\ exit = -1
    /\ calls = <<Call("describe_stacks", "-", NoArn, "ok"),
                 Call("describe_task_definition", "web", NoArn, "ok"),
                 Call("register_task_definition", "web", NoArn, "ok"),
                 Call("update_service", "web", Arn("web", 2), "ok")>>
    /\ failure = "none"
    /\ cfQueries = 1
    /\ created = <<[svc |-> "web", read |-> Arn("web", 1), found |-> TRUE,
                    result |-> "registered"]>>
    /\ monitored = <<>>
    /\ verified = <<>>
    /\ boundBefore = Put(EmptyMap, "web", Arn("web", 1))
    /\ updated = <<"web">>

\* one attempt of waiter.wait (botocore Waiter.wait, services_stable): the
\* service is described and the attempt counted; a stable service ends the
\* wait, an error raises, and otherwise the wait is over once the count has
\* reached MaxAttempts, else it sleeps Delay seconds and polls again
WaiterPoll ==
    /\ pc = "monitor"
    /\ waiter = "waiting"
    /\ num_attempts' = num_attempts + 1
    /\ \E answer \in {"stable", "pending", "error"} :
        waiter' = IF answer = "stable" THEN "success"
                  ELSE IF answer = "error" THEN "failed"
                  ELSE IF num_attempts + 1 >= MaxAttempts(timeout) THEN "timed_out"
                  ELSE "waiting"
    /\ UNCHANGED <<cpVars, argVars, stack_outputs, previous_task_defs, image_uri,
                   task_def_arn, all_healthy, task_def, pc, idx, exit, calls,
                   failure, cfQueries, created, monitored, verified, boundBefore,
                   updated, timeout>>

\* waiter.wait has returned or raised: wait_for_deployment logs the success,
\* or enters its except branch
WaiterReturns ==
    /\ pc = "monitor"
    /\ waiter \in {"success", "timed_out", "failed"}
    /\ LET s      == services[idx]
           result == IF waiter = "success" THEN "stable"
                     ELSE IF waiter = "timed_out" THEN "exhausted"
                     ELSE "error"
       IN  /\ calls' = Append(calls, Call("wait_services_stable", s, NoArn,
                                          Res(result = "stable")))
           /\ monitored' = Append(monitored, [svc |-> s, result |-> result])
           /\ IF result = "stable"
              THEN IF idx < Len(services)
                   THEN pc' = "monitor" /\ idx' = idx + 1
                   ELSE pc' = "verify" /\ idx' = 1
              ELSE pc' = "rollback" /\ idx' = idx
    /\ UNCHANGED <<cpVars, argVars, stack_outputs, previous_task_defs, image_uri,
                   task_def_arn, all_healthy, task_def, exit, failure, cfQueries,
                   created, verified, boundBefore, updated, waitVars>>

NextWait ==
    \/ WaiterPoll
    \/ WaiterReturns

SpecWait == InitWait /\ [][NextWait]_vars

\* =================================================================== claims
\* positions of the calls of one operation
CallsOf(op) == {i \in DOMAIN calls : calls[i].op = op}

NoMutatingCall == \A i \in DOMAIN calls : calls[i].op \notin MutatingOps

\* the service list up to position k, as a set
Upto(k) == {services[j] : j \in 1..k}

\* the last wait_for_deployment of the run failed
StabilizationFailed ==
    /\ monitored # <<>>
    /\ monitored[Len(monitored)].result \in {"exhausted", "error"}

FailedService == monitored[Len(monitored)].svc

\* nothing the collaborators answered was a failure
NothingFailed ==
    /\ failure \in {"none", "HealthCheckFailed"}
    /\ \A i \in DOMAIN calls :
         calls[i].op # "describe_target_health" => calls[i].res = "ok"
    /\ \A i \in DOMAIN monitored : monitored[i].result \notin {"exhausted", "error"}
    /\ \A i \in DOMAIN verified : verified[i].response \notin {"mismatch", "error"}

\* C1: a finished run has exit status 0 exactly when the publish (if run),
\* every revision and update, every stabilization and every health
\* verification succeeded.  (Stated as claimed; the code breaks it.)
C1_ExitZeroIffAllSucceeded ==
    pc = "done" => (exit = 0 <=> NothingFailed)

\* C2: a dry run of both services, with a ready configuration holding every
\* key and working read calls, ends with exit status 0 and no mutating call.
\* (Stated as claimed; the code breaks it.)
C2_DryRunBothSucceeds ==
    (/\ pc = "done"
     /\ dry_run
     /\ services = <<"web", "worker">>
     /\ stack_outputs.set
     /\ stack_outputs.keys = AllKeys
     /\ failure \notin {"LookupFailed", "GitShaFailed"})
    => (exit = 0 /\ NoMutatingCall)

\* C3: in a non-dry run a failed stabilization of S is followed by exactly one
\* rollback update for S, naming the unit stored in previous_task_defs[S],
\* made while the process still runs, and the process then exits with 1.
C3_RollbackOnStabilizationFailure ==
    (~dry_run /\ StabilizationFailed) =>
        LET s  == FailedService
            rb == {i \in CallsOf("rollback_update_service") : calls[i].svc = s}
        IN  /\ pc \in {"rollback", "done"}
            /\ pc = "rollback" => (exit = -1 /\ rb = {})
            /\ pc = "done" =>
                 /\ rb = {Len(calls)}
                 /\ s \in DOMAIN previous_task_defs
                 /\ calls[Len(calls)].unit = previous_task_defs[s]
                 /\ calls[Len(calls) - 1].op = "wait_services_stable"
                 /\ exit = 1

C3_Witness ==
    /\ pc = "done"
    /\ ~dry_run
    /\ StabilizationFailed
    /\ FailedService = "web"
    /\ monitored[Len(monitored)].result = "exhausted"
    /\ calls[Len(calls)].op = "rollback_update_service"
    /\ calls[Len(calls)].unit = Arn("web", 1)
    /\ exit = 1

\* C4: once the current unit of S was read, previous_task_defs[S] holds its
\* ARN before the registration call is made, and still holds it after a
\* rejected registration, with no container named S, and in dry-run mode.
C4_LedgerHoldsReadUnit ==
    /\ pc = "register" =>
         LET s == services[idx]
         IN  /\ s \in DOMAIN previous_task_defs
             /\ previous_task_defs[s] = Arn(s, task_def.revision)
             /\ Cardinality({i \in CallsOf("register_task_definition") :
                               calls[i].svc = s}) = 0
    /\ \A i \in DOMAIN created :
         created[i].result # "lookup_failed" =>
             /\ created[i].svc \in DOMAIN previous_task_defs
             /\ previous_task_defs[created[i].svc] = created[i].read

C4_Witness ==
    /\ \E i \in DOMAIN created :
         created[i].result = "rejected" /\ ~created[i].found
    /\ failure = "RegistrationFailed"
    /\ previous_task_defs[services[idx]] = Arn(services[idx], 1)

\* the last call of the run is a rollback update that was accepted
RollbackSucceeded ==
    /\ calls # <<>>
    /\ calls[Len(calls)].op = "rollback_update_service"
    /\ calls[Len(calls)].res = "ok"

\* C5: after a successful rollback of S the service is bound to the unit it
\* was bound to before this run updated it, whatever earlier runs did.
\* (Stated as claimed; the code breaks it.)
C5_RollbackRestoresBoundUnit ==
    (pc = "done" /\ RollbackSucceeded) =>
        LET s == calls[Len(calls)].svc
        IN  /\ s \in DOMAIN boundBefore
            /\ bound[s] = boundBefore[s]

\* the unit the run's update_service call bound service s to
UpdatedTo(s) ==
    LET i == CHOOSE i \in CallsOf("update_service") : calls[i].svc = s
    IN  calls[i].unit

\* C6: the first service whose stabilization fails is the only one rolled
\* back: nothing is monitored after it, nothing is health-verified, no other
\* service gets a rollback update, and the other services stay bound to the
\* unit this run updated them to.
C6_OnlyFailedServiceRolledBack ==
    /\ \A i \in DOMAIN monitored :
         i < Len(monitored) => monitored[i].result \notin {"exhausted", "error"}
    /\ StabilizationFailed =>
         /\ verified = <<>>
         /\ Len(monitored) = idx
         /\ \A i \in CallsOf("rollback_update_service") :
              calls[i].svc = FailedService
         /\ Cardinality(CallsOf("rollback_update_service")) <= 1
         /\ \A j \in 1..Len(services) :
              services[j] # FailedService =>
                  bound[services[j]] = UpdatedTo(services[j])

C6_Witness ==
    /\ pc = "done"
    /\ services = <<"web", "worker">>
    /\ StabilizationFailed
    /\ FailedService = "web"
    /\ RollbackSucceeded
    /\ bound["web"] = Arn("web", 1)
    /\ bound["worker"] = Arn("worker", 2)

ReviseOps == {"describe_task_definition", "register_task_definition",
              "update_service"}

\* C7: the first failed lookup, registration or service update ends the run
\* with exit status 1: it is the last call of the run, no later service is
\* revised or updated, and neither monitoring nor verification starts.
C7_ReviseFailureAborts ==
    \A i \in DOMAIN calls :
        (calls[i].op \in ReviseOps /\ calls[i].res = "err") =>
            /\ i = Len(calls)
            /\ pc = "done"
            /\ exit = 1
            /\ monitored = <<>>
            /\ verified = <<>>
            /\ \A j \in DOMAIN calls :
                 calls[j].svc \in Services => calls[j].svc \in Upto(idx)
            /\ calls[i].svc = services[idx]

C7_Witness ==
    /\ services = <<"web", "worker">>
    /\ calls # <<>>
    /\ calls[Len(calls)] = Call("update_service", "web", Arn("web", 2), "err")
    /\ pc = "done"
    /\ exit = 1
    /\ "worker" \notin DOMAIN previous_task_defs

\* the health phase has run to its end
HealthPhaseOver == pc = "summary" \/ (pc = "done" /\ verified # <<>>)

C9_NoRollbackFromHealth ==
    /\ [](\A i \in CallsOf("rollback_update_service") :
            /\ i > 1
            /\ calls[i - 1].op = "wait_services_stable"
            /\ calls[i - 1].res = "err"
            /\ calls[i - 1].svc = calls[i].svc)
    /\ []((pc = "verify" \/ verified # <<>>) =>
            CallsOf("rollback_update_service") = {})
    /\ [][(pc = "verify" \/ verified # <<>>) => bound' = bound]_vars

C9_Witness ==
    /\ pc = "done"
    /\ ~dry_run
    /\ failure = "HealthCheckFailed"
    /\ \E i \in DOMAIN verified : verified[i].ret = "False"
    /\ \A j \in 1..Len(services) : bound[services[j]] = UpdatedTo(services[j])

\* C10: when the unit read has no container named S, no new unit is
\* registered, no service update follows and the run aborts.
\* (Stated as claimed; the code breaks it.)
C10_ContainerNotFoundAborts ==
    \A i \in DOMAIN created :
        (created[i].result # "lookup_failed" /\ ~created[i].found) =>
            /\ pc = "done"
            /\ exit = 1
            /\ \A j \in CallsOf("register_task_definition") \cup CallsOf("update_service") :
                 calls[j].svc # created[i].svc

\* C11: a dry run makes no mutating call on any path (no build, login, tag
\* or push, no registration, no service update, no rollback update) and
\* leaves the registered units and the services' bound units as they were.
C11_DryRunNeverMutates ==
    /\ [](dry_run => NoMutatingCall)
    /\ [][dry_run => (taskDef' = taskDef /\ bound' = bound)]_vars

C11_Witness ==
    /\ pc = "done"
    /\ dry_run
    /\ ~update_services_only
    /\ ~build_only
    /\ services = <<"web", "worker">>
    /\ Len(verified) = 2
    /\ Len(calls) = 3

ReadOps == {"describe_stacks", "describe_task_definition",
            "wait_services_stable", "describe_services"}

\* C12: a dry run makes the read calls a real run makes and fails where a
\* real run's reads fail: each monitored service is polled, each verified
\* service is described, and a dry run whose configuration holds every key
\* and whose read calls were all answered normally does not fail.
\* (Stated as claimed; the code breaks it.)
C12_DryRunKeepsReads ==
    dry_run =>
        /\ \A i \in DOMAIN monitored :
             \E j \in CallsOf("wait_services_stable") :
                 calls[j].svc = monitored[i].svc
        /\ \A i \in DOMAIN verified :
             \E j \in CallsOf("describe_services") :
                 calls[j].svc = verified[i].svc
        /\ (/\ pc = "done"
            /\ stack_outputs.set
            /\ stack_outputs.keys = AllKeys
            /\ failure # "GitShaFailed"
            /\ \A i \in DOMAIN calls : calls[i].res = "ok") => exit = 0

ServiceOps == {"describe_task_definition", "register_task_definition",
               "update_service", "wait_services_stable", "describe_services",
               "describe_target_health", "rollback_update_service"}

\* C13: with build_only the run only builds and pushes: no revision is
\* created and no service is updated, monitored, verified or rolled back,
\* whatever the other arguments are.
\* (Stated as claimed; the code breaks it.)
C13_BuildOnlyTouchesNoService ==
    build_only =>
        /\ created = <<>>
        /\ monitored = <<>>
        /\ verified = <<>>
        /\ \A i \in DOMAIN calls : calls[i].op \notin ServiceOps
        /\ pc \in {"start", "done", "exited"}

\* C14: a rollback whose update call is rejected, or that finds no entry in
\* previous_task_defs, returns normally: no further call is made, the service
\* stays as the run's update left it, and the run ends with the exit status 1
\* of the stabilization failure.
C14_RollbackBestEffort ==
    /\ \A i \in CallsOf("rollback_update_service") :
         calls[i].res = "err" =>
             /\ i = Len(calls)
             /\ pc = "done"
             /\ exit = 1
             /\ failure = "StabilizationTimeout"
             /\ bound[calls[i].svc] = UpdatedTo(calls[i].svc)
    /\ (/\ pc = "done"
        /\ StabilizationFailed
        /\ FailedService \notin DOMAIN previous_task_defs) =>
             /\ calls[Len(calls)].op = "wait_services_stable"
             /\ exit = 1
             /\ failure = "StabilizationTimeout"

C14_Witness ==
    /\ pc = "done"
    /\ StabilizationFailed
    /\ calls[Len(calls)].op = "rollback_update_service"
    /\ calls[Len(calls)].res = "err"
    /\ exit = 1
    /\ failure = "StabilizationTimeout"
    /\ bound[FailedService] = Arn(FailedService, 2)

\* C15: a run sends at most one query to the configuration source, and once
\* the outputs are cached every later get_stack_outputs returns that same
\* snapshot although the source would now answer differently.
C15_OneQueryOneSnapshot ==
    /\ [](cfQueries <= 1 /\ Cardinality(CallsOf("describe_stacks")) <= 1)
    /\ [][stack_outputs.set =>
            (stack_outputs' = stack_outputs \/ pc' = "exited")]_vars

C15_Witness ==
    /\ pc = "done"
    /\ ~dry_run
    /\ cfQueries = 1
    /\ stack_outputs.set
    /\ stack_outputs.keys = AllKeys
    /\ Len(verified) = 2
    /\ \E i \in DOMAIN calls : calls[i].op = "describe_target_health"

KeyedOps == {"update_service", "wait_services_stable", "describe_services",
             "rollback_update_service"}

\* C16: a run whose snapshot lacks a key it needs fails with
\* ConfigurationMissing (exit status 1) before any call that would use the
\* value: without the registry URI no image reference is built and no
\* revision is attempted, in full-deploy and in update-services-only mode;
\* without the cluster or service name no service call is made.
\* (Stated as claimed; the code breaks it.)
C16_MissingKeyFailsFirst ==
    stack_outputs.set =>
        /\ "ECRRepositoryUri" \notin stack_outputs.keys =>
             /\ pc = "done"
             /\ exit = 1
             /\ failure = "ConfigurationMissing"
        /\ \A i \in DOMAIN calls :
             calls[i].op \in KeyedOps =>
                 /\ "ECSClusterName" \in stack_outputs.keys
                 /\ ServiceNameKey(calls[i].svc) \in stack_outputs.keys
        /\ (/\ pc \in {"monitor", "rollback", "verify", "summary"}
            /\ idx \in DOMAIN services) =>
                 /\ "ECSClusterName" \in stack_outputs.keys
                 /\ \A j \in DOMAIN services :
                      ServiceNameKey(services[j]) \in stack_outputs.keys

\* C17: in a non-dry run verify_service_health returns True exactly when
\* describe_services answered with running = desired; whatever the load
\* balancer probe met (partial health, no targets, no target group key, a
\* probe error) does not change the result.
C17_ProbeIsAdvisory ==
    ~dry_run =>
        \A i \in DOMAIN verified :
            /\ verified[i].ret \in {"True", "False"}
            /\ verified[i].ret = "True" <=> verified[i].response = "match"
            /\ verified[i].ret = "True" =>
                 \E j \in CallsOf("describe_services") :
                     calls[j].svc = verified[i].svc /\ calls[j].res = "ok"

C17_Witness ==
    /\ pc = "done"
    /\ ~dry_run
    /\ exit = 0
    /\ \E i \in DOMAIN verified :
         /\ verified[i].svc = "web"
         /\ verified[i].alb = "partial"
         /\ verified[i].ret = "True"

\* C18: describe_target_health is only called during the verification of the
\* web service, right after its describe_services; the verification of the
\* worker service never probes.
C18_ProbeOnlyForWeb ==
    /\ \A i \in CallsOf("describe_target_health") :
         /\ i > 1
         /\ calls[i - 1].op = "describe_services"
         /\ calls[i - 1].svc = "web"
    /\ \A i \in DOMAIN verified :
         verified[i].svc = "worker" => verified[i].alb = "none"

C18_Witness ==
    /\ pc = "done"
    /\ services = <<"web", "worker">>
    /\ Len(verified) = 2
    /\ verified[1].alb = "all_healthy"
    /\ verified[2].response = "match"
    /\ verified[2].alb = "none"
    /\ Cardinality(CallsOf("describe_target_health")) = 1
    /\ calls[Len(calls)].op = "describe_services"

\* C19: the number of polls made before the wait is reported as timed out
\* equals floor(timeout / 15) with an interval of 15 (40 for 600, 2 for 30),
\* also for timeout < 15.
\* (The code breaks it for timeout < 15: MaxAttempts is 0 and one poll is made.)
C19_AttemptsAreFloor ==
    waiter = "timed_out" =>
        /\ CheckInterval * num_attempts <= timeout
        /\ timeout < CheckInterval * (num_attempts + 1)

\* what the waiter does: a timed-out wait has made floor(timeout / 15) polls
\* when timeout >= 15 (40 for 600, 2 for 30) and one poll when timeout < 15,
\* and no wait makes more polls than that
AttemptsAreFloorOrOne ==
    /\ waiter = "timed_out" =>
         /\ timeout >= CheckInterval =>
              /\ CheckInterval * num_attempts <= timeout
              /\ timeout < CheckInterval * (num_attempts + 1)
         /\ timeout < CheckInterval => num_attempts = 1
         /\ timeout = 600 => num_attempts = 40
         /\ timeout = 30 => num_attempts = 2
    /\ waiter # "idle" =>
         (num_attempts <= 1 \/ CheckInterval * num_attempts <= timeout)

\* place of a call in the order of the phases
Rank(op) ==
    IF op \in {"describe_task_definition", "register_task_definition",
               "update_service"} THEN 1
    ELSE IF op \in {"wait_services_stable", "rollback_update_service"} THEN 2
    ELSE IF op \in {"describe_services", "describe_target_health"} THEN 3
    ELSE 0

\* C20: the phases are sequential loops over the list: services are revised,
\* updated, monitored and verified in list order, one at a time; a service is
\* revised before it is updated; monitoring starts after every service was
\* revised and updated, verification after every service has stabilized.
C20_PhasesSequential ==
    /\ \A i \in DOMAIN created : i <= Len(services) /\ created[i].svc = services[i]
    /\ \A i \in DOMAIN updated : i <= Len(services) /\ updated[i] = services[i]
    /\ \A i \in DOMAIN monitored : i <= Len(services) /\ monitored[i].svc = services[i]
    /\ \A i \in DOMAIN verified : i <= Len(services) /\ verified[i].svc = services[i]
    /\ Len(updated) <= Len(created)
    /\ Len(created) <= Len(updated) + 1
    /\ (pc = "monitor" \/ monitored # <<>>) =>
         /\ Len(updated) = Len(services)
         /\ \A i \in DOMAIN created : created[i].result \in {"registered", "dry_run"}
    /\ (pc = "verify" \/ verified # <<>>) =>
         /\ Len(monitored) = Len(services)
         /\ \A i \in DOMAIN monitored : monitored[i].result \in {"stable", "dry_run"}
    /\ \A i, j \in DOMAIN calls :
         i < j => Rank(calls[i].op) <= Rank(calls[j].op)

C20_Witness ==
    /\ pc = "done"
    /\ ~dry_run
    /\ services = <<"web", "worker">>
    /\ updated = <<"web", "worker">>
    /\ Len(monitored) = 2
    /\ Len(verified) = 2
    /\ exit = 0

\* the failures that end the revise-and-update loop
ReviseFailures == {"LookupFailed", "RegistrationFailed", "ServiceUpdateFailed"}

\* C21: when the revise-and-update loop aborts on a later service (lookup,
\* registration or update failure) no rollback is made for any service: no
\* rollback call is in the run, each earlier service stays bound to the unit
\* this run registered for it although the ledger holds its previous unit,
\* and the exit status is 1.  No rollback starts before monitoring has.
C21_NoRollbackOnReviseAbort ==
    /\ monitored = <<>> =>
         /\ pc # "rollback"
         /\ CallsOf("rollback_update_service") = {}
    /\ (pc = "done" /\ failure \in ReviseFailures) =>
         /\ exit = 1
         /\ monitored = <<>>
         /\ CallsOf("rollback_update_service") = {}
         /\ \A j \in 1..(idx - 1) :
              LET e == services[j] IN
              /\ e \in DOMAIN previous_task_defs
              /\ ~dry_run =>
                   /\ CallsOf("update_service") # {}
                   /\ bound[e] = UpdatedTo(e)
                   /\ bound[e] = Arn(e, taskDef[e].revision)
                   /\ bound[e] # previous_task_defs[e]

C21_Witness ==
    /\ pc = "done"
    /\ ~dry_run
    /\ services = <<"web", "worker">>
    /\ idx = 2
    /\ failure = "RegistrationFailed"
    /\ "web" \in DOMAIN previous_task_defs
    /\ previous_task_defs["web"] = Arn("web", 1)
    /\ bound["web"] = Arn("web", 2)
    /\ CallsOf("rollback_update_service") = {}
    /\ exit = 1

\* the waits of this run that failed: each one invokes rollback_service
FailedWaits == {i \in DOMAIN monitored : monitored[i].result \in {"exhausted", "error"}}

\* C22: in a run rollback is invoked at most once; when it is invoked the
\* ledger has an entry for the service and the service's update was issued
\* earlier in this run, so rollback never takes its no-previous-unit branch.
C22_RollbackOnceWithEntry ==
    /\ Cardinality(FailedWaits) <= 1
    /\ Cardinality(CallsOf("rollback_update_service")) <= 1
    /\ pc = "rollback" =>
         LET s == services[idx] IN
         /\ ~dry_run
         /\ FailedWaits = {Len(monitored)}
         /\ monitored[Len(monitored)].svc = s
         /\ CallsOf("rollback_update_service") = {}
         /\ s \in DOMAIN previous_task_defs
         /\ \E i \in DOMAIN updated : updated[i] = s
         /\ \E i \in CallsOf("update_service") :
              calls[i].svc = s /\ calls[i].res = "ok"
    /\ \A i \in CallsOf("rollback_update_service") :
         /\ calls[i].svc \in DOMAIN previous_task_defs
         /\ calls[i].unit = previous_task_defs[calls[i].svc]
         /\ i = Len(calls)
    /\ (pc = "done" /\ FailedWaits # {}) =>
         Cardinality(CallsOf("rollback_update_service")) = 1

C22_Witness ==
    /\ pc = "rollback"
    /\ services = <<"web", "worker">>
    /\ idx = 2
    /\ monitored[1].result = "stable"
    /\ monitored[2].result = "exhausted"
    /\ previous_task_defs["worker"] = Arn("worker", 1)
    /\ updated = <<"web", "worker">>
====
